---- MODULE Spec2Model ----
(***************************************************************************)
(* The Monkey front end of vtallen/go-interpreter: the lexer               *)
(* (lexer/lexer.go), the token model (token/token.go) and the parser       *)
(* (parser/parser.go) with the AST nodes it builds (ast/ast.go).           *)
(*                                                                         *)
(* Source text is a Go string, modelled as a sequence of bytes (0..255);   *)
(* Go's 0-based s[i] is the (i+1)-th element.  A token literal is the      *)
(* sequence of bytes of the Go string.                                     *)
(***************************************************************************)
EXTENDS Integers, Sequences, FiniteSets, TLC

VARIABLES
    input,          \* Lexer.input
    position,       \* Lexer.position
    readPosition,   \* Lexer.readPosition
    ch,             \* Lexer.ch
    panicked,       \* a Go run-time panic (index or slice out of range) happened
    toks,           \* the tokens NextToken has returned so far, in order
    curToken,       \* Parser.curToken
    peekToken,      \* Parser.peekToken
    errors,         \* Parser.errors
    statements,     \* program.Statements of the running ParseProgram
    stmt,           \* the statement under construction / returned by parseStatement
    pc              \* where the caller of the lexer (the parser, or a client) stands

vars == <<input, position, readPosition, ch, panicked, toks,
          curToken, peekToken, errors, statements, stmt, pc>>

(***************************************************************************)
(* Bounds of the model.                                                    *)
(***************************************************************************)
MaxLexPieces == 3   \* LexSpec: an input is at most this many lexer pieces
MaxPieces == 4      \* Spec: an input is at most this many parser pieces ...
MaxStmts == 2       \* ... or at most this many whole statements
MaxPast == 2        \* NextToken is called while position <= len(input) + MaxPast
MaxWsPieces == 2    \* WsSpec: an input is at most this many lexer pieces
MaxWs == 2          \* whitespace runs inserted at a token boundary: 1..MaxWs bytes
MaxKwPieces == 3    \* KwSpec: an input is at most this many keyword pieces

(***************************************************************************)
(* token/token.go                                                          *)
(***************************************************************************)
token_ILLIGAL == "ILLEGAL"
token_EOF == "EOF"
token_IDENT == "IDENT"
token_INT == "INT"
token_ASSIGN == "="
token_PLUS == "+"
token_MINUS == "-"
token_BANG == "!"
token_ASTERISK == "*"
token_SLASH == "/"
token_LT == "<"
token_GT == ">"
token_EQ == "=="
token_NOT_EQ == "!="
token_COMMA == ","
token_SEMICOLON == ";"
token_LPAREN == "("
token_RPAREN == ")"
token_LBRACE == "{"
token_RBRACE == "}"
token_FUNCTION == "FUNCTION"
token_LET == "LET"
token_TRUE == "TRUE"
token_FALSE == "FALSE"
token_IF == "IF"
token_ELSE == "ELSE"
token_RETURN == "RETURN"

\* type Token struct { Type; Literal }
Token(type, literal) == [Type |-> type, Literal |-> literal]

\* the zero value of Token
ZeroToken == Token("", <<>>)

\* var keywords = map[string]TokenType{...}
keywords ==
    (<<102, 110>> :> token_FUNCTION)                        \* "fn"
    @@ (<<108, 101, 116>> :> token_LET)                     \* "let"
    @@ (<<116, 114, 117, 101>> :> token_TRUE)               \* "true"
    @@ (<<102, 97, 108, 115, 101>> :> token_FALSE)          \* "false"
    @@ (<<105, 102>> :> token_IF)                           \* "if"
    @@ (<<101, 108, 115, 101>> :> token_ELSE)               \* "else"
    @@ (<<114, 101, 116, 117, 114, 110>> :> token_RETURN)   \* "return"

\* LookupIdent that takes an identifier for a keyword when it starts with one
LookupIdent_Prefix(ident) ==
    LET starts == {k \in DOMAIN keywords :
                      Len(k) <= Len(ident) /\ SubSeq(ident, 1, Len(k)) = k}
    IN  IF starts # {} THEN keywords[CHOOSE k \in starts : TRUE] ELSE token_IDENT

LookupIdent(ident) ==
    IF ident \in DOMAIN keywords THEN keywords[ident] ELSE token_IDENT

(***************************************************************************)
(* lexer/lexer.go.  A lexer value is the record of the struct's fields     *)
(* plus the panic flag.                                                    *)
(***************************************************************************)
\* Go's bounds check of s[i]
InBounds(s, i) == 0 <= i /\ i < Len(s)

\* Go's bounds check of s[a:b]
SliceInBounds(s, a, b) == 0 <= a /\ a <= b /\ b <= Len(s)

isLetter(c) ==
    (97 <= c /\ c <= 122) \/ (65 <= c /\ c <= 90) \/ c = 95

isDigit(c) == 48 <= c /\ c <= 57

\* readChar that returns at the end of the input without moving the cursors
readChar_ReturnAtEnd(l) ==
    IF l.readPosition >= Len(l.input)
    THEN [l EXCEPT !.ch = 0]
    ELSE [l EXCEPT !.ch = l.input[l.readPosition + 1],
                   !.position = l.readPosition,
                   !.readPosition = l.readPosition + 1]

\* readChar that increments readPosition before it copies it to position
readChar_PositionAfterIncrement(l) ==
    IF l.readPosition >= Len(l.input)
    THEN [l EXCEPT !.ch = 0,
                   !.position = l.readPosition + 1,
                   !.readPosition = l.readPosition + 1]
    ELSE [l EXCEPT !.ch = l.input[l.readPosition + 1],
                   !.position = l.readPosition + 1,
                   !.readPosition = l.readPosition + 1]

readChar(l) ==
    IF l.readPosition >= Len(l.input)
    THEN [l EXCEPT !.ch = 0,
                   !.position = l.readPosition,
                   !.readPosition = l.readPosition + 1]
    ELSE IF ~InBounds(l.input, l.readPosition)
         THEN [l EXCEPT !.panicked = TRUE]
         ELSE [l EXCEPT !.ch = l.input[l.readPosition + 1],
                        !.position = l.readPosition,
                        !.readPosition = l.readPosition + 1]

lexer_New(in) ==
    readChar([input |-> in, position |-> 0, readPosition |-> 0, ch |-> 0,
              panicked |-> FALSE])

\* for isLetter(l.ch) { l.readChar() }
RECURSIVE readIdentifierLoop(_)
readIdentifierLoop(l) ==
    IF ~l.panicked /\ isLetter(l.ch) THEN readIdentifierLoop(readChar(l)) ELSE l

\* the string readIdentifier returns (lit) and the lexer it leaves (l)
readIdentifier(l0) ==
    LET l == readIdentifierLoop(l0) IN
    IF l.panicked \/ ~SliceInBounds(l.input, l0.position, l.position)
    THEN [lit |-> <<>>, l |-> [l EXCEPT !.panicked = TRUE]]
    ELSE [lit |-> SubSeq(l.input, l0.position + 1, l.position), l |-> l]

\* for isDigit(l.ch) { l.readChar() }
RECURSIVE readNumberLoop(_)
readNumberLoop(l) ==
    IF ~l.panicked /\ isDigit(l.ch) THEN readNumberLoop(readChar(l)) ELSE l

\* readNumber whose slice stops one byte short: l.input[position:l.position-1]
readNumber_DropLast(l0) ==
    LET l == readNumberLoop(l0) IN
    IF l.panicked \/ ~SliceInBounds(l.input, l0.position, l.position - 1)
    THEN [lit |-> <<>>, l |-> [l EXCEPT !.panicked = TRUE]]
    ELSE [lit |-> SubSeq(l.input, l0.position + 1, l.position - 1), l |-> l]

readNumber(l0) ==
    LET l == readNumberLoop(l0) IN
    IF l.panicked \/ ~SliceInBounds(l.input, l0.position, l.position)
    THEN [lit |-> <<>>, l |-> [l EXCEPT !.panicked = TRUE]]
    ELSE [lit |-> SubSeq(l.input, l0.position + 1, l.position), l |-> l]

\* ' ', '\t', '\n', '\r'
Whitespace == {32, 9, 10, 13}

\* skipWhitespace without the '\r' case
RECURSIVE skipWhitespace_NoCarriageReturn(_)
skipWhitespace_NoCarriageReturn(l) ==
    IF ~l.panicked /\ l.ch \in {32, 9, 10}
    THEN skipWhitespace_NoCarriageReturn(readChar(l))
    ELSE l

RECURSIVE skipWhitespace(_)
skipWhitespace(l) ==
    IF ~l.panicked /\ l.ch \in Whitespace THEN skipWhitespace(readChar(l)) ELSE l

\* peekChar that looks at the current byte instead of the next one
peekChar_Current(l) == l.ch

peekChar(l) ==
    IF l.readPosition >= Len(l.input) THEN 0 ELSE l.input[l.readPosition + 1]

\* string(ch) of a byte ch: the UTF-8 encoding of the code point ch, one
\* byte below 0x80 and two bytes from 0x80 on
byteString(c) ==
    IF c < 128 THEN <<c>> ELSE <<192 + (c \div 64), 128 + (c % 64)>>

newToken(tokenType, c) == Token(tokenType, byteString(c))

\* the one-character cases of NextToken's switch that only call newToken
SingleChar ==
    (43 :> token_PLUS) @@ (45 :> token_MINUS) @@ (47 :> token_SLASH)
    @@ (42 :> token_ASTERISK) @@ (60 :> token_LT) @@ (62 :> token_GT)
    @@ (59 :> token_SEMICOLON) @@ (44 :> token_COMMA) @@ (40 :> token_LPAREN)
    @@ (41 :> token_RPAREN) @@ (123 :> token_LBRACE) @@ (125 :> token_RBRACE)

\* the EOF token built like the others: newToken(token.EOF, l.ch)
eofToken_FromChar == Token(token_EOF, <<0>>)

\* case 0: tok.Literal = ""; tok.Type = token.EOF
eofToken == Token(token_EOF, <<>>)

\* case '=' / case '!': one byte of lookahead decides between the one-byte
\* token (one) and the two-byte token (two); tok and the lexer before the
\* trailing readChar
twoCharToken(l, one, two) ==
    IF peekChar(l) = 61
    THEN LET l2 == readChar(l)
         IN  [tok |-> Token(two, byteString(l.ch) \o byteString(l2.ch)), l |-> l2]
    ELSE [tok |-> newToken(one, l.ch), l |-> l]

\* NextToken: the token returned (tok) and the lexer it leaves (l)
NextToken(l0) ==
    LET l == skipWhitespace(l0)
        \* the paths that end in "l.readChar(); return tok"
        advance(r) == [tok |-> r.tok, l |-> readChar(r.l)]
    IN  CASE l.ch = 61 -> advance(twoCharToken(l, token_ASSIGN, token_EQ))
          [] l.ch = 33 -> advance(twoCharToken(l, token_BANG, token_NOT_EQ))
          [] l.ch \in DOMAIN SingleChar ->
                advance([tok |-> newToken(SingleChar[l.ch], l.ch), l |-> l])
          [] l.ch = 0 -> advance([tok |-> eofToken, l |-> l])
          [] OTHER ->
                IF isLetter(l.ch)
                THEN LET r == readIdentifier(l)
                     IN  [tok |-> Token(LookupIdent(r.lit), r.lit), l |-> r.l]
                ELSE IF isDigit(l.ch)
                THEN LET r == readNumber(l)
                     IN  [tok |-> Token(token_INT, r.lit), l |-> r.l]
                ELSE advance([tok |-> newToken(token_ILLIGAL, l.ch), l |-> l])

\* the lexer held in the state variables
L == [input |-> input, position |-> position, readPosition |-> readPosition,
      ch |-> ch, panicked |-> panicked]

\* the state variables take the fields of lexer l
SetLexer(l) ==
    /\ input' = l.input
    /\ position' = l.position
    /\ readPosition' = l.readPosition
    /\ ch' = l.ch
    /\ panicked' = l.panicked

\* the call may be made: the program has not panicked, and the model follows
\* the lexer at most MaxPast bytes past the end of the input
CanCall == ~panicked /\ position <= Len(input) + MaxPast

(***************************************************************************)
(* Inputs.  A set of byte strings closed under concatenation of pieces.    *)
(***************************************************************************)
RECURSIVE Concats(_, _)
Concats(P, n) ==
    IF n = 0 THEN {<<>>}
    ELSE LET prev == Concats(P, n - 1) IN prev \cup {s \o p : s \in prev, p \in P}

\* bytes of every class the lexer tells apart, and the keyword "let"
LexPieces ==
    {<<0>>, <<32>>, <<9>>, <<10>>, <<13>>,          \* NUL, ' ', '\t', '\n', '\r'
     <<61>>, <<33>>, <<59>>,                        \* '=', '!', ';'
     <<120>>, <<95>>, <<53>>, <<64>>,               \* 'x', '_', '5', '@'
     <<200>>,                                       \* a byte that is not ASCII
     <<108, 101, 116>>}                             \* "let"

LexInputs == Concats(LexPieces, MaxLexPieces)

WsInputs == Concats(LexPieces, MaxWsPieces)

\* the seven keywords, and bytes that continue or end a run of letters
KwPieces ==
    DOMAIN keywords
    \cup {<<120>>, <<76>>, <<95>>,                  \* 'x', 'L', '_'
          <<53>>, <<32>>, <<61>>, <<0>>}            \* '5', ' ', '=', NUL

KwInputs == Concats(KwPieces, MaxKwPieces)

(***************************************************************************)
(* ast/ast.go.  A *LetStatement / *ReturnStatement is a record; an         *)
(* ast.Statement is a Go interface value: its dynamic type (itype, "" for  *)
(* the nil interface), whether the pointer it holds is nil, and the node.  *)
(***************************************************************************)
\* a nil *ast.Identifier
NilIdentifier == [isNil |-> TRUE, Token |-> ZeroToken, Value |-> <<>>]

\* &ast.Identifier{Token: tok, Value: value}
Identifier(tok, value) == [isNil |-> FALSE, Token |-> tok, Value |-> value]

\* &ast.LetStatement{Token: tok}
LetStatement(tok) == [Token |-> tok, Name |-> NilIdentifier]

\* &ast.ReturnStatement{Token: tok}
ReturnStatement(tok) == [Token |-> tok, Name |-> NilIdentifier]

\* the node of a nil pointer
NilNode == [Token |-> ZeroToken, Name |-> NilIdentifier]

\* the nil ast.Statement (parseStatement's "return nil")
NilStatement == [itype |-> "", nilPtr |-> TRUE, node |-> NilNode]

\* a pointer of type itype converted to ast.Statement: a nil pointer gives
\* an interface value that holds a type, which is not the nil interface
AsStatement(itype, nilPtr, node) ==
    [itype |-> itype, nilPtr |-> nilPtr, node |-> IF nilPtr THEN NilNode ELSE node]

(***************************************************************************)
(* parser/parser.go.  A parser value is the record of the struct's fields  *)
(* (l is the lexer it owns) plus the tokens its lexer has returned.        *)
(***************************************************************************)
\* p.l.NextToken(): the token (tok) and the parser with its lexer advanced
lexerNextToken(p) ==
    LET r == NextToken(p.l)
    IN  [tok |-> r.tok, p |-> [p EXCEPT !.l = r.l, !.toks = Append(p.toks, r.tok)]]

\* nextToken with its two assignments in the other order
nextToken_PeekFirst(p) ==
    LET r == lexerNextToken(p)
    IN  [r.p EXCEPT !.peekToken = r.tok, !.curToken = r.tok]

nextToken(p) ==
    LET r == lexerNextToken(p)
    IN  [r.p EXCEPT !.curToken = p.peekToken, !.peekToken = r.tok]

curTokenIs(p, t) == p.curToken.Type = t

peekTokenIs(p, t) == p.peekToken.Type = t

\* fmt.Sprintf("expected next token to be %s, got %s instead", t, got)
ErrorMsg(t, got) == <<"expected next token to be ", t, ", got ", got, " instead">>

peekError(p, t) ==
    [p EXCEPT !.errors = Append(p.errors, ErrorMsg(t, p.peekToken.Type))]

\* expectPeek that steps over the unexpected token after reporting it
expectPeek_AdvanceOnError(p, t) ==
    IF peekTokenIs(p, t)
    THEN [ok |-> TRUE, p |-> nextToken(p)]
    ELSE [ok |-> FALSE, p |-> nextToken(peekError(p, t))]

\* the bool expectPeek returns (ok) and the parser it leaves (p)
expectPeek(p, t) ==
    IF peekTokenIs(p, t)
    THEN [ok |-> TRUE, p |-> nextToken(p)]
    ELSE [ok |-> FALSE, p |-> peekError(p, t)]

\* the parser held in the state variables
P == [l |-> L, curToken |-> curToken, peekToken |-> peekToken,
      errors |-> errors, toks |-> toks]

\* the state variables take the fields of parser p
SetParser(p) ==
    /\ SetLexer(p.l)
    /\ toks' = p.toks
    /\ curToken' = p.curToken
    /\ peekToken' = p.peekToken
    /\ errors' = p.errors

\* the pieces of the parser's inputs: "let ", "return ", "x", "5", "=", ";", "@"
ParsePieces ==
    {<<108, 101, 116, 32>>, <<114, 101, 116, 117, 114, 110, 32>>,
     <<120>>, <<53>>, <<61>>, <<59>>, <<64>>}

\* whole statements, each ended by its semicolon
StmtForms ==
    << <<108, 101, 116, 32, 120, 32, 61, 32, 53, 59>>,       \* "let x = 5;"
       <<108, 101, 116, 32, 121, 32, 61, 32, 49, 48, 59>>,   \* "let y = 10;"
       <<114, 101, 116, 117, 114, 110, 32, 53, 59>>,         \* "return 5;"
       <<108, 101, 116, 32, 120, 32, 53, 59>>,               \* "let x 5;"
       <<108, 101, 116, 32, 61, 32, 49, 48, 59>>,            \* "let = 10;"
       <<108, 101, 116, 32, 56, 51, 56, 51, 56, 51, 59>> >>  \* "let 838383;"

\* programs of the kinds the parser is documented for
Samples ==
    {<<108, 101, 116, 32, 120, 32, 61, 32, 53>>,             \* "let x = 5"
     <<114, 101, 116, 117, 114, 110, 32, 53>>,               \* "return 5"
     <<49, 50, 51, 52, 53, 59>>,                             \* "12345;"
     \* "let f = fn(a) { return a; };"
     <<108, 101, 116, 32, 102, 32, 61, 32, 102, 110, 40, 97, 41, 32, 123, 32,
       114, 101, 116, 117, 114, 110, 32, 97, 59, 32, 125, 59>>,
     \* "let f = fn() { 1; return 2; };"
     <<108, 101, 116, 32, 102, 32, 61, 32, 102, 110, 40, 41, 32, 123, 32, 49,
       59, 32, 114, 101, 116, 117, 114, 110, 32, 50, 59, 32, 125, 59>>,
     \* "let x 5; let = 10; let 838383;"
     <<108, 101, 116, 32, 120, 32, 53, 59, 32, 108, 101, 116, 32, 61, 32, 49,
       48, 59, 32, 108, 101, 116, 32, 56, 51, 56, 51, 56, 51, 59>>}

\* the concatenation of the statements StmtForms[fs[1]], StmtForms[fs[2]], ...
RECURSIVE Src(_)
Src(fs) == IF fs = <<>> THEN <<>> ELSE StmtForms[Head(fs)] \o Src(Tail(fs))

\* the sequences of at most n indices into StmtForms
RECURSIVE FormSeqsUpTo(_)
FormSeqsUpTo(n) ==
    IF n = 0 THEN {<<>>}
    ELSE LET prev == FormSeqsUpTo(n - 1)
         IN  prev \cup {Append(fs, i) : fs \in prev, i \in DOMAIN StmtForms}

FormSeqs == FormSeqsUpTo(MaxStmts)

ParseInputs ==
    Concats(ParsePieces, MaxPieces) \cup {Src(fs) : fs \in FormSeqs} \cup Samples

(***************************************************************************)
(* Spec: l := lexer.New(input); p := parser.New(l); p.ParseProgram().      *)
(* pc is the parser's position; one action per step between two loop       *)
(* heads or calls of expectPeek.                                           *)
(***************************************************************************)
Init ==
    /\ \E in \in ParseInputs :
          LET l == lexer_New(in) IN
          /\ input = l.input
          /\ position = l.position
          /\ readPosition = l.readPosition
          /\ ch = l.ch
          /\ panicked = l.panicked
    /\ toks = <<>>
    /\ curToken = ZeroToken
    /\ peekToken = ZeroToken
    /\ errors = <<>>
    /\ statements = <<>>
    /\ stmt = NilStatement
    /\ pc = "New"

\* parser.New: errors = []string{}, then nextToken twice
parser_New ==
    /\ pc = "New"
    /\ CanCall
    /\ SetParser(nextToken(nextToken([P EXCEPT !.errors = <<>>])))
    /\ pc' = "ParseProgram"
    /\ UNCHANGED <<statements, stmt>>

\* ParseProgram, up to its loop: program.Statements = []ast.Statement{}
ParseProgram_Begin ==
    /\ pc = "ParseProgram"
    /\ statements' = <<>>
    /\ pc' = "loop"
    /\ UNCHANGED <<input, position, readPosition, ch, panicked, toks,
                   curToken, peekToken, errors, stmt>>

\* the loop "for p.curToken.Type != token.EOF" ends: return program
ParseProgram_Return ==
    /\ pc = "loop"
    /\ ~panicked
    /\ curToken.Type = token_EOF
    /\ pc' = "done"
    /\ UNCHANGED <<input, position, readPosition, ch, panicked, toks,
                   curToken, peekToken, errors, statements, stmt>>

\* the loop goes on: parseStatement's switch on p.curToken.Type
parseStatement ==
    /\ pc = "loop"
    /\ ~panicked
    /\ curToken.Type # token_EOF
    /\ IF curToken.Type = token_LET
       THEN pc' = "parseLetStatement" /\ stmt' = stmt
       ELSE IF curToken.Type = token_RETURN
       THEN pc' = "parseReturnStatement" /\ stmt' = stmt
       ELSE pc' = "append" /\ stmt' = NilStatement
    /\ UNCHANGED <<input, position, readPosition, ch, panicked, toks,
                   curToken, peekToken, errors, statements>>

\* parseLetStatement up to its second expectPeek:
\* stmt := &ast.LetStatement{Token: p.curToken}; expectPeek(token.IDENT);
\* stmt.Name = &ast.Identifier{...}
parseLetStatement_Ident ==
    /\ pc = "parseLetStatement"
    /\ CanCall
    /\ LET r == expectPeek(P, token_IDENT) IN
          /\ SetParser(r.p)
          /\ IF r.ok
             THEN /\ stmt' = AsStatement("*ast.LetStatement", FALSE,
                        [LetStatement(curToken) EXCEPT
                            !.Name = Identifier(r.p.curToken, r.p.curToken.Literal)])
                  /\ pc' = "let_assign"
             ELSE /\ stmt' = AsStatement("*ast.LetStatement", TRUE, NilNode)
                  /\ pc' = "append"
    /\ UNCHANGED statements

\* expectPeek(token.ASSIGN)
parseLetStatement_Assign ==
    /\ pc = "let_assign"
    /\ CanCall
    /\ LET r == expectPeek(P, token_ASSIGN) IN
          /\ SetParser(r.p)
          /\ IF r.ok
             THEN stmt' = stmt /\ pc' = "let_skip"
             ELSE /\ stmt' = AsStatement("*ast.LetStatement", TRUE, NilNode)
                  /\ pc' = "append"
    /\ UNCHANGED statements

\* for !p.curTokenIs(token.SEMICOLON) { p.nextToken() }; return stmt
parseLetStatement_Skip ==
    /\ pc = "let_skip"
    /\ ~panicked
    /\ IF ~curTokenIs(P, token_SEMICOLON)
       THEN CanCall /\ SetParser(nextToken(P)) /\ pc' = pc
       ELSE /\ pc' = "append"
            /\ UNCHANGED <<input, position, readPosition, ch, panicked, toks,
                           curToken, peekToken, errors>>
    /\ UNCHANGED <<statements, stmt>>

\* stmt := &ast.ReturnStatement{Token: p.curToken}; p.nextToken()
parseReturnStatement_Begin ==
    /\ pc = "parseReturnStatement"
    /\ CanCall
    /\ stmt' = AsStatement("*ast.ReturnStatement", FALSE, ReturnStatement(curToken))
    /\ SetParser(nextToken(P))
    /\ pc' = "ret_skip"
    /\ UNCHANGED statements

\* for !p.curTokenIs(token.SEMICOLON) { p.nextToken() }; return stmt
parseReturnStatement_Skip ==
    /\ pc = "ret_skip"
    /\ ~panicked
    /\ IF ~curTokenIs(P, token_SEMICOLON)
       THEN CanCall /\ SetParser(nextToken(P)) /\ pc' = pc
       ELSE /\ pc' = "append"
            /\ UNCHANGED <<input, position, readPosition, ch, panicked, toks,
                           curToken, peekToken, errors>>
    /\ UNCHANGED <<statements, stmt>>

\* back in ParseProgram: if stmt != nil { append }; p.nextToken()
ParseProgram_Append ==
    /\ pc = "append"
    /\ CanCall
    /\ statements' = IF stmt # NilStatement THEN Append(statements, stmt)
                     ELSE statements
    /\ SetParser(nextToken(P))
    /\ pc' = "loop"
    /\ UNCHANGED stmt

Next ==
    \/ parser_New
    \/ ParseProgram_Begin
    \/ ParseProgram_Return
    \/ parseStatement
    \/ parseLetStatement_Ident
    \/ parseLetStatement_Assign
    \/ parseLetStatement_Skip
    \/ parseReturnStatement_Begin
    \/ parseReturnStatement_Skip
    \/ ParseProgram_Append

Spec == Init /\ [][Next]_vars

(***************************************************************************)
(* LexSpec: a client that owns a lexer and calls NextToken again and       *)
(* again, also after the input is used up.                                 *)
(***************************************************************************)
\* the client's state once it has built the lexer of one of the inputs ins
LexInitOn(ins) ==
    /\ \E in \in ins :
          LET l == lexer_New(in) IN
          /\ input = l.input
          /\ position = l.position
          /\ readPosition = l.readPosition
          /\ ch = l.ch
          /\ panicked = l.panicked
    /\ toks = <<>>
    /\ curToken = ZeroToken
    /\ peekToken = ZeroToken
    /\ errors = <<>>
    /\ statements = <<>>
    /\ stmt = NilStatement
    /\ pc = "lexing"

LexInit == LexInitOn(LexInputs)

CallNextToken ==
    /\ pc = "lexing"
    /\ CanCall
    /\ LET r == NextToken(L) IN
          /\ SetLexer(r.l)
          /\ toks' = Append(toks, r.tok)
    /\ UNCHANGED <<curToken, peekToken, errors, statements, stmt, pc>>

LexNext == CallNextToken

LexSpec == LexInit /\ [][LexNext]_vars

\* the same client, on the inputs the whitespace property is checked for
WsInit == LexInitOn(WsInputs)

WsSpec == WsInit /\ [][LexNext]_vars

\* the same client, on inputs made of keywords and identifiers
KwInit == LexInitOn(KwInputs)

KwSpec == KwInit /\ [][LexNext]_vars

(***************************************************************************)
(* Helpers of the properties.                                              *)
(***************************************************************************)
\* the first n tokens NextToken returns from lexer l on
RECURSIVE StreamFrom(_, _)
StreamFrom(l, n) ==
    IF n = 0 THEN <<>>
    ELSE LET r == NextToken(l) IN <<r.tok>> \o StreamFrom(r.l, n - 1)

\* the first n tokens of the input in
Stream(in, n) == StreamFrom(lexer_New(in), n)

\* s with w inserted before the byte of Go index b
InsertAt(s, b, w) == SubSeq(s, 1, b) \o w \o SubSeq(s, b + 1, Len(s))

\* the whitespace runs of 1..MaxWs bytes
WsRuns == Concats({<<c>> : c \in {32, 9, 10, 13}}, MaxWs) \ {<<>>}

\* a byte no case of NextToken's switch recognises (NUL is the end sentinel)
Unrecognized(c) ==
    /\ c # 0
    /\ c \notin {32, 9, 10, 13}
    /\ c \notin {61, 33, 43, 45, 47, 42, 60, 62, 59, 44, 40, 41, 123, 125}
    /\ ~((97 <= c /\ c <= 122) \/ (65 <= c /\ c <= 90) \/ c = 95)
    /\ ~(48 <= c /\ c <= 57)

\* the parser is inside a statement's loop "for !p.curTokenIs(token.SEMICOLON)"
\* with nothing but EOF left: every later token is EOF, so the loop never ends
StuckAtEOF ==
    /\ pc \in {"let_skip", "ret_skip"}
    /\ curToken.Type = "EOF"
    /\ peekToken.Type = "EOF"
    /\ position >= Len(input)

(***************************************************************************)
(* C1.  ParseProgram terminates and returns a Program for every finite     *)
(* input, also when the input ends inside a let or return statement:       *)
(* the parser is never left looping for a semicolon once only EOF remains. *)
(***************************************************************************)
C1_ParseProgramTerminates == ~StuckAtEOF

(***************************************************************************)
(* C2.  Once the lexer has consumed all of its input (position >=          *)
(* len(input)), every further NextToken returns the EOF token with an      *)
(* empty literal, does not panic, and leaves the input consumed.           *)
(***************************************************************************)
C2_EofIsIdempotent ==
    [][position >= Len(input) =>
          /\ toks' = Append(toks, [Type |-> "EOF", Literal |-> <<>>])
          /\ ~panicked'
          /\ position' >= Len(input')]_vars

C2_Witness ==
    /\ pc = "lexing"
    /\ Len(input) > 0
    /\ position > Len(input)
    /\ Len(toks) >= 3
    /\ toks[1].Type # "EOF"
    /\ toks[Len(toks) - 1] = [Type |-> "EOF", Literal |-> <<>>]
    /\ toks[Len(toks)] = [Type |-> "EOF", Literal |-> <<>>]

(***************************************************************************)
(* C3.  For every valid input "let <ident> = <expr>;", function literals   *)
(* with statements in their body included, ParseProgram yields exactly one *)
(* statement, a LetStatement named <ident>, and records no diagnostic.     *)
(***************************************************************************)
ValidLets ==
    {[src |-> <<108, 101, 116, 32, 120, 32, 61, 32, 53, 59>>,        \* let x = 5;
      name |-> <<120>>],
     [src |-> <<108, 101, 116, 32, 121, 32, 61, 32, 49, 48, 59>>,    \* let y = 10;
      name |-> <<121>>],
     \* let f = fn(a) { return a; };
     [src |-> <<108, 101, 116, 32, 102, 32, 61, 32, 102, 110, 40, 97, 41, 32,
                123, 32, 114, 101, 116, 117, 114, 110, 32, 97, 59, 32, 125, 59>>,
      name |-> <<102>>],
     \* let f = fn() { 1; return 2; };
     [src |-> <<108, 101, 116, 32, 102, 32, 61, 32, 102, 110, 40, 41, 32, 123,
                32, 49, 59, 32, 114, 101, 116, 117, 114, 110, 32, 50, 59, 32,
                125, 59>>,
      name |-> <<102>>]}

C3_ValidLetYieldsOneLetStatement ==
    pc = "done" =>
        \A v \in ValidLets :
            input = v.src =>
                /\ Len(statements) = 1
                /\ statements[1].itype = "*ast.LetStatement"
                /\ ~statements[1].nilPtr
                /\ statements[1].node.Name.Value = v.name
                /\ errors = <<>>

(***************************************************************************)
(* C4.  A malformed let statement records one diagnostic naming the        *)
(* expected and the found token kind, adds no LetStatement, and parsing    *)
(* goes on: for a program made of well-formed and malformed statements,    *)
(* ParseProgram returns the well-formed statements, and one diagnostic     *)
(* per malformed statement, both in source order.                          *)
(***************************************************************************)
\* what each statement of StmtForms is to contribute
FormErrors ==
    << <<>>, <<>>, <<>>,
       << <<"expected next token to be ", "=", ", got ", "INT", " instead">> >>,
       << <<"expected next token to be ", "IDENT", ", got ", "=", " instead">> >>,
       << <<"expected next token to be ", "IDENT", ", got ", "INT", " instead">> >> >>

FormStatements ==
    << << [itype |-> "*ast.LetStatement", nilPtr |-> FALSE, name |-> <<120>>] >>,
       << [itype |-> "*ast.LetStatement", nilPtr |-> FALSE, name |-> <<121>>] >>,
       << [itype |-> "*ast.ReturnStatement", nilPtr |-> FALSE, name |-> <<>>] >>,
       <<>>, <<>>, <<>> >>

RECURSIVE Flatten(_, _)
Flatten(table, fs) ==
    IF fs = <<>> THEN <<>> ELSE table[Head(fs)] \o Flatten(table, Tail(fs))

StatementView(s) ==
    [itype |-> s.itype, nilPtr |-> s.nilPtr, name |-> s.node.Name.Value]

C4_MalformedLetIsSkipped ==
    pc = "done" =>
        \A fs \in FormSeqs :
            input = Src(fs) =>
                /\ errors = Flatten(FormErrors, fs)
                /\ [i \in DOMAIN statements |-> StatementView(statements[i])]
                       = Flatten(FormStatements, fs)

(***************************************************************************)
(* C5.  Statement dispatch: a program whose first token is let has a       *)
(* LetStatement as its first statement, one whose first token is return a  *)
(* ReturnStatement, and one that starts with any other token an            *)
(* ExpressionStatement ("12345;" yields one ExpressionStatement).          *)
(***************************************************************************)
C5_StatementDispatch ==
    (pc = "done" /\ toks[1].Type # "EOF") =>
        /\ statements # <<>>
        /\ statements[1].itype =
              CASE toks[1].Type = "LET" -> "*ast.LetStatement"
                [] toks[1].Type = "RETURN" -> "*ast.ReturnStatement"
                [] OTHER -> "*ast.ExpressionStatement"

(***************************************************************************)
(* C6.  An unrecognised byte is lexed as an ILLEGAL token carrying that    *)
(* byte, and the parser rejects it: after ParseProgram, an input that      *)
(* contains an unrecognised byte has left Errors() non-empty.              *)
(***************************************************************************)
C6_IllegalByteIsDiagnosed ==
    /\ \A i \in DOMAIN toks :
          toks[i].Type = "ILLEGAL" =>
              Len(toks[i].Literal) = 1 /\ Unrecognized(toks[i].Literal[1])
    /\ (pc = "done" /\ \E i \in DOMAIN input : Unrecognized(input[i])) =>
          errors # <<>>

(***************************************************************************)
(* C7.  Whitespace only separates tokens: inserting a whitespace run at a  *)
(* token boundary (the lexer's position between two NextToken calls, up to *)
(* the first byte of the next token; the start and the end of the input    *)
(* included) leaves the tokens NextToken returns unchanged.                *)
(***************************************************************************)
C7_WhitespaceOnlySeparates ==
    pc = "lexing" =>
        LET n == Len(input) + MaxWs + 2
            stream == Stream(input, n)
        IN  \A b \in position .. skipWhitespace(L).position :
                b <= Len(input) =>
                    \A w \in WsRuns : Stream(InsertAt(input, b, w), n) = stream

C7_Witness ==
    /\ pc = "lexing"
    /\ Len(toks) >= 1
    /\ toks[Len(toks)].Type # "EOF"
    /\ position < Len(input)
    /\ ch # 0
    /\ ch \notin {32, 9, 10, 13}

(***************************************************************************)
(* C8.  The parser looks exactly one token ahead: after New and after      *)
(* every nextToken, curToken and peekToken are the last two tokens of the  *)
(* lexer's stream for the input, in order, and a nextToken pulls exactly   *)
(* one token from the lexer, moving peekToken to curToken.                 *)
(***************************************************************************)
C8_OneTokenLookahead ==
    /\ [](pc \notin {"New", "lexing"} =>
             /\ Len(toks) >= 2
             /\ toks = Stream(input, Len(toks))
             /\ curToken = toks[Len(toks) - 1]
             /\ peekToken = toks[Len(toks)])
    /\ [][IF pc = "New"
          THEN Len(toks') = 2
          ELSE \/ /\ toks' = toks
                  /\ curToken' = curToken
                  /\ peekToken' = peekToken
               \/ /\ Len(toks') = Len(toks) + 1
                  /\ SubSeq(toks', 1, Len(toks)) = toks
                  /\ curToken' = peekToken]_vars

C8_Witness ==
    /\ pc = "done"
    /\ Len(toks) >= 5
    /\ curToken.Type = "EOF"
    /\ toks[Len(toks) - 2].Type # "EOF"

(***************************************************************************)
(* C9.  As claimed: in every reachable lexer state, ch is the NUL sentinel *)
(* if and only if readPosition > len(input).                               *)
(***************************************************************************)
C9_SentinelIffPastEnd == (ch = 0) <=> (readPosition > Len(input))

(***************************************************************************)
(* C9, amended.  ch is NUL if and only if readPosition > len(input) or the *)
(* input byte at position is itself a NUL byte.                            *)
(***************************************************************************)
C9_SentinelIffPastEndOrNulByte ==
    (ch = 0) <=>
        \/ readPosition > Len(input)
        \/ (0 <= position /\ position < Len(input) /\ input[position + 1] = 0)

C9_Witness ==
    /\ pc = "lexing"
    /\ Len(toks) >= 2
    /\ Len(input) >= 2
    /\ ch = 0
    /\ readPosition <= Len(input)

(***************************************************************************)
(* C10.  In every reachable lexer state, calls past the end of the input   *)
(* included, readPosition = position + 1.                                  *)
(***************************************************************************)
C10_ReadPositionIsNext == readPosition = position + 1

C10_Witness ==
    /\ pc = "lexing"
    /\ Len(toks) >= 2
    /\ position > Len(input) + 1
    /\ readPosition = position + 1

\* what a step that runs expectPeek(t) must do, by the kind of peekToken
ExpectPeekStep(t, onTrue) ==
    IF peekToken.Type = t
    THEN /\ pc' = onTrue
         /\ errors' = errors
         /\ curToken' = peekToken
         /\ Len(toks') = Len(toks) + 1
         /\ SubSeq(toks', 1, Len(toks)) = toks
         /\ peekToken' = toks'[Len(toks')]
    ELSE /\ pc' = "append"
         /\ errors' = Append(errors, <<"expected next token to be ", t,
                                       ", got ", peekToken.Type, " instead">>)
         /\ curToken' = curToken
         /\ peekToken' = peekToken
         /\ toks' = toks
         /\ L' = L

(***************************************************************************)
(* C11.  expectPeek(t) has two outcomes.  When peekToken has kind t it     *)
(* pulls exactly one token (peekToken becomes curToken), returns true and  *)
(* records no diagnostic; otherwise it returns false, appends exactly one  *)
(* diagnostic (expected t, got the kind of peekToken) and leaves curToken, *)
(* peekToken and the lexer as they were.  Its callers are the two checks   *)
(* of parseLetStatement, which go on when it returns true and return nil   *)
(* when it returns false.                                                  *)
(***************************************************************************)
C11_ExpectPeekOutcomes ==
    [][/\ pc = "parseLetStatement" => ExpectPeekStep("IDENT", "let_assign")
       /\ pc = "let_assign" => ExpectPeekStep("=", "let_skip")]_vars

\* a parse in which expectPeek has failed once and has since returned true
\* for both checks of a later let statement
C11_Witness ==
    /\ pc = "let_skip"
    /\ Len(errors) = 1
    /\ curToken.Type = "="

\* the number of tokens of ts that are not EOF
NonEOFCount(ts) == Cardinality({i \in 1..Len(ts) : ts[i].Type # "EOF"})

(***************************************************************************)
(* C12.  Every NextToken call that returns a token other than EOF leaves   *)
(* position strictly greater than it found it, and no call decreases       *)
(* position; so the lexer of an input of n bytes returns at most n tokens  *)
(* that are not EOF.                                                       *)
(***************************************************************************)
C12_NonEOFTokenAdvances ==
    /\ [](NonEOFCount(toks) <= Len(input))
    /\ [][/\ position' >= position
          /\ Len(toks') = Len(toks) + 1
          /\ toks'[Len(toks')].Type # "EOF" => position' > position]_vars

\* an input of three bytes lexed to the end as three tokens, the most it can
\* give, the last of them an identifier that ends with the input
C12_Witness ==
    /\ pc = "lexing"
    /\ Len(input) = 3
    /\ Len(toks) = 4
    /\ NonEOFCount(toks) = 3
    /\ toks[3].Type = "IDENT"
    /\ toks[4].Type = "EOF"

\* the index (from 0, as in the code) of the first byte at or after position
\* that is not whitespace; len(input) when there is none
TokenStart ==
    LET rest == {k \in position..Len(input) :
                    k = Len(input) \/ input[k + 1] \notin {32, 9, 10, 13}}
    IN  CHOOSE k \in rest : \A j \in rest : k <= j

\* the byte of the input at index k (from 0); 0 past the end
ByteAt(k) == IF k < Len(input) THEN input[k + 1] ELSE 0

\* the call returned token tok and left the cursor on index k
ReturnedAt(tok, k) ==
    /\ toks' = Append(toks, tok)
    /\ position' = k
    /\ readPosition' = k + 1
    /\ ch' = ByteAt(k)

(***************************************************************************)
(* C13.  When the next token starts with '=' or '!': if the byte right     *)
(* after it is '=' the call returns one EQ token "==" (one NOT_EQ token    *)
(* "!=") and the cursor is left two bytes on; in every other case it       *)
(* returns ASSIGN "=" (BANG "!") and the cursor is left one byte on, on    *)
(* the byte after it, where the next token starts.                         *)
(***************************************************************************)
C13_TwoCharOperators ==
    [][position < Len(input) =>
          LET s == TokenStart IN
          /\ ByteAt(s) = 61 =>
                IF ByteAt(s + 1) = 61
                THEN ReturnedAt([Type |-> "==", Literal |-> <<61, 61>>], s + 2)
                ELSE ReturnedAt([Type |-> "=", Literal |-> <<61>>], s + 1)
          /\ ByteAt(s) = 33 =>
                IF ByteAt(s + 1) = 61
                THEN ReturnedAt([Type |-> "!=", Literal |-> <<33, 61>>], s + 2)
                ELSE ReturnedAt([Type |-> "!", Literal |-> <<33>>], s + 1)]_vars

\* "=!=" lexed as ASSIGN then NOT_EQ
C13_Witness ==
    /\ pc = "lexing"
    /\ Len(toks) = 2
    /\ toks[1] = [Type |-> "=", Literal |-> <<61>>]
    /\ toks[2] = [Type |-> "!=", Literal |-> <<33, 61>>]
    /\ position = 3

\* a letter or an underscore
IsLetterByte(c) == c \in (97..122) \cup (65..90) \cup {95}

\* the index (from 0) of the first byte at or after s that is not a letter
\* or an underscore; len(input) when there is none
RunEnd(s) ==
    LET ends == {k \in s..Len(input) : ~IsLetterByte(ByteAt(k))}
    IN  CHOOSE k \in ends : \A j \in ends : k <= j

\* the kind of the token whose text is the run of letters lit
KindOfRun(lit) ==
    CASE lit = <<102, 110>> -> "FUNCTION"                       \* fn
      [] lit = <<108, 101, 116>> -> "LET"                       \* let
      [] lit = <<116, 114, 117, 101>> -> "TRUE"                 \* true
      [] lit = <<102, 97, 108, 115, 101>> -> "FALSE"            \* false
      [] lit = <<105, 102>> -> "IF"                             \* if
      [] lit = <<101, 108, 115, 101>> -> "ELSE"                 \* else
      [] lit = <<114, 101, 116, 117, 114, 110>> -> "RETURN"     \* return
      [] OTHER -> "IDENT"

(***************************************************************************)
(* C14.  When the next token starts with a letter or an underscore, the    *)
(* call returns one token whose literal is the longest run of letters and  *)
(* underscores that starts there; its kind is the keyword's when the whole *)
(* run is fn, let, true, false, if, else or return and IDENT otherwise     *)
(* ("letx" is IDENT); the cursor is left on the first byte after the run.  *)
(***************************************************************************)
C14_IdentifierIsMaximalRun ==
    [][position < Len(input) /\ IsLetterByte(ByteAt(TokenStart)) =>
          LET s == TokenStart
              e == RunEnd(s)
              lit == SubSeq(input, s + 1, e)
          IN  ReturnedAt([Type |-> KindOfRun(lit), Literal |-> lit], e)]_vars

\* " letx": the run that starts with a keyword is read whole, up to the end
\* of the input, as one identifier
C14_Witness ==
    /\ pc = "lexing"
    /\ input = <<32, 108, 101, 116, 120>>
    /\ toks = <<[Type |-> "IDENT", Literal |-> <<108, 101, 116, 120>>]>>
    /\ position = 5

\* the literals of the tokens ts, one after the other
RECURSIVE Literals(_)
Literals(ts) ==
    IF ts = <<>> THEN <<>> ELSE Head(ts).Literal \o Literals(Tail(ts))

\* the bytes s without its spaces, tabs, newlines and carriage returns
RECURSIVE StripWhitespace(_)
StripWhitespace(s) ==
    IF s = <<>> THEN <<>>
    ELSE IF Head(s) \in {32, 9, 10, 13} THEN StripWhitespace(Tail(s))
    ELSE <<Head(s)>> \o StripWhitespace(Tail(s))

\* the tokens returned before the first EOF
BeforeFirstEOF(ts) ==
    LET eofs == {i \in 1..Len(ts) : ts[i].Type = "EOF"}
    IN  IF eofs = {} THEN ts
        ELSE SubSeq(ts, 1, (CHOOSE i \in eofs : \A j \in eofs : i <= j) - 1)

\* the part of the input the cursor has passed
Consumed == SubSeq(input, 1, IF position < Len(input) THEN position ELSE Len(input))

(***************************************************************************)
(* C15.  For an ASCII input without a NUL byte the lexer neither drops nor *)
(* duplicates a byte: the literals of the tokens returned so far, up to    *)
(* the first EOF, are together the part of the input the cursor has        *)
(* passed with the whitespace taken out, and once EOF has been returned    *)
(* they are the whole input with the whitespace taken out.                 *)
(***************************************************************************)
C15_LiteralsCoverInput ==
    (pc = "lexing" /\ \A i \in 1..Len(input) : input[i] \in 1..127) =>
        /\ Literals(BeforeFirstEOF(toks)) = StripWhitespace(Consumed)
        /\ (\E i \in 1..Len(toks) : toks[i].Type = "EOF") =>
              Literals(BeforeFirstEOF(toks)) = StripWhitespace(input)

\* "let 5" lexed to the end: LET, INT and the first EOF
C15_Witness ==
    /\ pc = "lexing"
    /\ input = <<108, 101, 116, 32, 53>>
    /\ Len(toks) = 3
    /\ toks[2] = [Type |-> "INT", Literal |-> <<53>>]
    /\ toks[3].Type = "EOF"

====
